---- MODULE Spec2Model ----
(***************************************************************************)
(* Model of opyn/wallet.py (class Wallet): construction, sign_msg,         *)
(* _sign_type_data_v4, sign_order_data, verify_allowance and settle_trade. *)
(*                                                                         *)
(* Python values are encoded as follows.                                   *)
(*   - None is the string "None"; the empty string is "".  Both are falsy. *)
(*   - A private key is a string "0x<i>".                                  *)
(*   - An address string is a record [id, fmt]: id says which 20 bytes it  *)
(*     denotes, fmt how the string spells them (checksummed, lower case,   *)
(*     upper case, without the 0x prefix).  id 0 is used for the values    *)
(*     that denote no address (None, "", a malformed string).              *)
(*   - A 256-bit integer is the sequence of its hexadecimal digits, most   *)
(*     significant first, without leading zeros.                           *)
(*   - A string of hexadecimal text is a sequence of one-character strings.*)
(*   - The outcome of a call is [kind |-> "return", value |-> v] or        *)
(*     [kind |-> "raise", error |-> e].                                    *)
(* The calls a method makes to its collaborators (the eth_keys signer, the *)
(* relayer, the settlement contract) are recorded in per-call logs.        *)
(***************************************************************************)
EXTENDS Integers, Sequences, FiniteSets, TLC

VARIABLES wallet, call, result, signer_log, relayer_log, settle_log

vars == <<wallet, call, result, signer_log, relayer_log, settle_log>>

(***************************************************************************)
(* Bounds of the model.                                                    *)
(***************************************************************************)
NumKeys == 2
ExtraAddrs == 1
MaxUint == 1
MaxDecimals == 6
MaxAllowanceUnits == 10

(***************************************************************************)
(* Program constants.                                                      *)
(***************************************************************************)
MIN_ALLOWANCE == 100000000

MESSAGE_TYPES ==
  [OpynRfq |-> << [name |-> "bidId", type |-> "uint256"],
                  [name |-> "trader", type |-> "address"],
                  [name |-> "token", type |-> "address"],
                  [name |-> "amount", type |-> "uint256"],
                  [name |-> "nonce", type |-> "uint256"] >>]

ERR_NO_KEYS == "ValueError: Can't instanciate a Wallet without a public or private key"
ERR_MESSAGE == "TypeError: Invalid message_to_sign(MessageToSign)"
ERR_NO_PRIVATE_KEY == "ValueError: Unable to sign. Create the Wallet with the private key argument."
ERR_MISMATCH == "ValueError: Signer wallet address mismatch"
ERR_DOMAIN == "TypeError: Invalid domain parameters"
ERR_NO_SIGNER == "AttributeError: 'Wallet' object has no attribute 'signer'"
ERR_ADDRESS == "MalformedAddressError"
ERR_ZERO_DIV == "ZeroDivisionError"
ERR_URL == "TypeError: unsupported operand type(s) for +: 'NoneType' and 'str'"
ERR_RESPONSE_ATTR == "AttributeError: 'dict' object has no attribute 'bidId'"
ERR_ORDER_ARGS == "TypeError: __init__() missing 1 required positional argument: 's'"

None == "None"

Return(v) == [kind |-> "return", value |-> v]
Raise(e) == [kind |-> "raise", error |-> e]

Returned(r) == r.kind = "return"
Raised(r, e) == r.kind = "raise" /\ r.error = e

\* Python truthiness of an optional string
Falsy(s) == s \in {None, ""}

(***************************************************************************)
(* Addresses.                                                              *)
(***************************************************************************)
NumAddrs == NumKeys + ExtraAddrs
AddrIds == 1..NumAddrs
Formats == {"checksum", "lower", "upper", "noprefix"}

NoneAddr == [id |-> 0, fmt |-> "None"]
EmptyAddr == [id |-> 0, fmt |-> "empty"]
BadAddr == [id |-> 0, fmt |-> "malformed"]

WellFormedAddrs == [id : AddrIds, fmt : Formats]
AddrStrings == WellFormedAddrs \cup {BadAddr}

FalsyAddr(a) == a \in {NoneAddr, EmptyAddr}

\* opyn.utils.get_address: the checksummed spelling of the same 20 bytes,
\* or a failure when the string does not spell an address
get_address(a) ==
  IF a \in WellFormedAddrs
    THEN Return([id |-> a.id, fmt |-> "checksum"])
    ELSE Raise(ERR_ADDRESS)

(***************************************************************************)
(* Keys and the eth_keys signer.                                           *)
(***************************************************************************)
KeyStr(i) == "0x" \o ToString(i)
PrivateKeys == {KeyStr(i) : i \in 1..NumKeys}
KeyIndex(k) == CHOOSE i \in 1..NumKeys : KeyStr(i) = k

\* eth_keys: PrivateKey(...).public_key.to_address(), a lower-case string
to_address(k) == [id |-> KeyIndex(k), fmt |-> "lower"]

\* the 20 bytes a private key controls
KeyAddrId(k) == to_address(k).id

(***************************************************************************)
(* 256-bit integers and their hexadecimal text.                            *)
(***************************************************************************)
HexChars == <<"0","1","2","3","4","5","6","7","8","9","a","b","c","d","e","f">>
HexChar(d) == HexChars[d + 1]

Repeat(x, n) == [i \in 1..n |-> x]

\* Python hex(n) for n >= 1
hex(n) == <<"0", "x">> \o [i \in 1..Len(n) |-> HexChar(n[i])]

\* opyn.utils.hex_zero_pad: left-pads the digits after "0x" with zeros up
\* to 2 * length digits
RECURSIVE hex_zero_pad(_, _)
hex_zero_pad(value, length) ==
  IF Len(value) >= 2 * length + 2
    THEN value
    ELSE hex_zero_pad(<<"0", "x", "0">> \o SubSeq(value, 3, Len(value)), length)

\* sample values of r and s: one that needs 63 digits of padding, one that
\* needs one digit of padding, one that fills all 64 digits
SigInts == { <<5>>, <<1>> \o Repeat(0, 62), Repeat(15, 64) }

\* what signer.sign_msg_hash can return: recovery id 0 or 1, r and s
RawSignatures ==
  {[v |-> v, r |-> rs[1], s |-> rs[2]] :
     v \in {0, 1},
     rs \in {<<a, b>> \in SigInts \X SigInts : a # b /\ (Len(a) = 1 \/ Len(b) = 1)}}

(***************************************************************************)
(* opyn.definitions: Domain, MessageToSign, OrderData.                     *)
(***************************************************************************)
DomainFields == <<"name", "version", "chainId", "verifyingContract", "salt">>

Domain(name, version, chainId, verifyingContract, salt) ==
  [cls |-> "Domain", name |-> name, version |-> version, chainId |-> chainId,
   verifyingContract |-> verifyingContract, salt |-> salt]

MessageToSign(bidId, trader, token, amount, nonce) ==
  [cls |-> "MessageToSign", bidId |-> bidId, trader |-> trader,
   token |-> token, amount |-> amount, nonce |-> nonce]

\* the dataclass constructor called with positional arguments: all seven
\* fields are required
OrderData(a) ==
  IF Len(a) = 7
    THEN Return([bidId |-> a[1], trader |-> a[2], token |-> a[3],
                 amount |-> a[4], v |-> a[5], r |-> a[6], s |-> a[7]])
    ELSE Raise(ERR_ORDER_ARGS)

\* dataclasses.asdict(message_to_sign)
asdict(m) ==
  [bidId |-> m.bidId, trader |-> m.trader, token |-> m.token,
   amount |-> m.amount, nonce |-> m.nonce]

(***************************************************************************)
(* opyn.encode.TypedDataEncoder.  A hash is modelled by its preimage, so   *)
(* that two digests are equal exactly when they hash the same encoding.    *)
(***************************************************************************)
\* a field's 32-byte slot: an address contributes the 20 bytes it spells
encode_field(type, v) == IF type = "address" THEN v.id ELSE v

hash_domain(domain_dict) ==
  LET present == SelectSeq(DomainFields, LAMBDA k : k \in DOMAIN domain_dict)
  IN  [type |-> <<"EIP712Domain", present>>,
       data |-> [i \in 1..Len(present) |-> domain_dict[present[i]]]]

hash_struct(name, types, value) ==
  [type |-> <<name, types[name]>>,
   data |-> [i \in 1..Len(types[name]) |->
               encode_field(types[name][i].type, value[types[name][i].name])]]

_hash(domain_dict, types, value) ==
  <<"0x1901", hash_domain(domain_dict), hash_struct("OpynRfq", types, value)>>

(***************************************************************************)
(* class Wallet.                                                           *)
(***************************************************************************)
\* Wallet.__init__
__init__(public_key, private_key, relayer_url, relayer_token) ==
  IF Falsy(private_key) /\ FalsyAddr(public_key)
    THEN Raise(ERR_NO_KEYS)
    ELSE Return(
      [private_key |-> private_key,
       public_key |-> IF ~Falsy(private_key) /\ FalsyAddr(public_key)
                        THEN get_address(to_address(private_key)).value
                        ELSE public_key,
       relayer_url |-> relayer_url,
       relayer_token |-> relayer_token,
       signer |-> IF ~Falsy(private_key) THEN private_key ELSE "unset"])

\* sign_msg returning the raw recovery id
sign_msg_raw_v(self, messageHash, raw) ==
  IF self.signer = "unset"
    THEN [result |-> Raise(ERR_NO_SIGNER), signer_log |-> <<>>]
    ELSE [result |-> Return([v |-> raw.v,
                             r |-> hex_zero_pad(hex(raw.r), 32),
                             s |-> hex_zero_pad(hex(raw.s), 32)]),
          signer_log |-> << [key |-> self.signer, hash |-> messageHash, raw |-> raw] >>]

\* Wallet.sign_msg; raw is what signer.sign_msg_hash returns.
\* The outcome and the signer calls made.
sign_msg(self, messageHash, raw) ==
  IF self.signer = "unset"
    THEN [result |-> Raise(ERR_NO_SIGNER), signer_log |-> <<>>]
    ELSE [result |-> Return([v |-> raw.v + 27,
                             r |-> hex_zero_pad(hex(raw.r), 32),
                             s |-> hex_zero_pad(hex(raw.s), 32)]),
          signer_log |-> << [key |-> self.signer, hash |-> messageHash, raw |-> raw] >>]

\* the comprehension of Wallet._sign_type_data_v4: the fields that are not None
domain_dict(domain) ==
  [k \in {f \in {DomainFields[i] : i \in 1..Len(DomainFields)} : domain[f] # None}
     |-> domain[k]]

\* _sign_type_data_v4 without the isinstance check
_sign_type_data_v4_unchecked(self, domain, types, value, raw) ==
  sign_msg(self, _hash(domain_dict(domain), types, value), raw)

\* Wallet._sign_type_data_v4
_sign_type_data_v4(self, domain, types, value, raw) ==
  IF domain.cls # "Domain"
    THEN [result |-> Raise(ERR_DOMAIN), signer_log |-> <<>>]
    ELSE sign_msg(self, _hash(domain_dict(domain), types, value), raw)

\* sign_order_data without the comparison of the trader with public_key
sign_order_data_no_match_check(self, domain, message_to_sign, raw) ==
  IF message_to_sign.cls # "MessageToSign"
    THEN [result |-> Raise(ERR_MESSAGE), signer_log |-> <<>>]
  ELSE IF Falsy(self.private_key)
    THEN [result |-> Raise(ERR_NO_PRIVATE_KEY), signer_log |-> <<>>]
  ELSE LET signerWallet == get_address(message_to_sign.trader) IN
    IF ~Returned(signerWallet)
      THEN [result |-> signerWallet, signer_log |-> <<>>]
    ELSE IF FALSE
      THEN [result |-> Raise(ERR_MISMATCH), signer_log |-> <<>>]
    ELSE LET signed == _sign_type_data_v4(self, domain, MESSAGE_TYPES,
                                          asdict(message_to_sign), raw) IN
      IF ~Returned(signed.result)
        THEN signed
        ELSE [result |-> OrderData(<<message_to_sign.bidId,
                                     message_to_sign.trader,
                                     message_to_sign.token,
                                     message_to_sign.amount,
                                     signed.result.value.v,
                                     signed.result.value.r,
                                     signed.result.value.s>>),
              signer_log |-> signed.signer_log]

\* sign_order_data without the check of private_key
sign_order_data_no_key_check(self, domain, message_to_sign, raw) ==
  IF message_to_sign.cls # "MessageToSign"
    THEN [result |-> Raise(ERR_MESSAGE), signer_log |-> <<>>]
  ELSE IF FALSE
    THEN [result |-> Raise(ERR_NO_PRIVATE_KEY), signer_log |-> <<>>]
  ELSE LET signerWallet == get_address(message_to_sign.trader) IN
    IF ~Returned(signerWallet)
      THEN [result |-> signerWallet, signer_log |-> <<>>]
    ELSE IF signerWallet.value # self.public_key
      THEN [result |-> Raise(ERR_MISMATCH), signer_log |-> <<>>]
    ELSE LET signed == _sign_type_data_v4(self, domain, MESSAGE_TYPES,
                                          asdict(message_to_sign), raw) IN
      IF ~Returned(signed.result)
        THEN signed
        ELSE [result |-> OrderData(<<message_to_sign.bidId,
                                     message_to_sign.trader,
                                     message_to_sign.token,
                                     message_to_sign.amount,
                                     signed.result.value.v,
                                     signed.result.value.r,
                                     signed.result.value.s>>),
              signer_log |-> signed.signer_log]

\* sign_order_data checking the domain before the key and the trader
sign_order_data_domain_first(self, domain, message_to_sign, raw) ==
  IF message_to_sign.cls # "MessageToSign"
    THEN [result |-> Raise(ERR_MESSAGE), signer_log |-> <<>>]
  ELSE IF domain.cls # "Domain"
    THEN [result |-> Raise(ERR_DOMAIN), signer_log |-> <<>>]
  ELSE IF Falsy(self.private_key)
    THEN [result |-> Raise(ERR_NO_PRIVATE_KEY), signer_log |-> <<>>]
  ELSE LET signerWallet == get_address(message_to_sign.trader) IN
    IF ~Returned(signerWallet)
      THEN [result |-> signerWallet, signer_log |-> <<>>]
    ELSE IF signerWallet.value # self.public_key
      THEN [result |-> Raise(ERR_MISMATCH), signer_log |-> <<>>]
    ELSE LET signed == _sign_type_data_v4(self, domain, MESSAGE_TYPES,
                                          asdict(message_to_sign), raw) IN
      IF ~Returned(signed.result)
        THEN signed
        ELSE [result |-> OrderData(<<message_to_sign.bidId,
                                     message_to_sign.trader,
                                     message_to_sign.token,
                                     message_to_sign.amount,
                                     signed.result.value.v,
                                     signed.result.value.r,
                                     signed.result.value.s>>),
              signer_log |-> signed.signer_log]

\* sign_order_data returning the normalized trader in the order
sign_order_data_normalized_trader(self, domain, message_to_sign, raw) ==
  IF message_to_sign.cls # "MessageToSign"
    THEN [result |-> Raise(ERR_MESSAGE), signer_log |-> <<>>]
  ELSE IF Falsy(self.private_key)
    THEN [result |-> Raise(ERR_NO_PRIVATE_KEY), signer_log |-> <<>>]
  ELSE LET signerWallet == get_address(message_to_sign.trader) IN
    IF ~Returned(signerWallet)
      THEN [result |-> signerWallet, signer_log |-> <<>>]
    ELSE IF signerWallet.value # self.public_key
      THEN [result |-> Raise(ERR_MISMATCH), signer_log |-> <<>>]
    ELSE LET signed == _sign_type_data_v4(self, domain, MESSAGE_TYPES,
                                          asdict(message_to_sign), raw) IN
      IF ~Returned(signed.result)
        THEN signed
        ELSE [result |-> OrderData(<<message_to_sign.bidId,
                                     signerWallet.value,
                                     message_to_sign.token,
                                     message_to_sign.amount,
                                     signed.result.value.v,
                                     signed.result.value.r,
                                     signed.result.value.s>>),
              signer_log |-> signed.signer_log]

\* Wallet.sign_order_data
sign_order_data(self, domain, message_to_sign, raw) ==
  IF message_to_sign.cls # "MessageToSign"
    THEN [result |-> Raise(ERR_MESSAGE), signer_log |-> <<>>]
  ELSE IF Falsy(self.private_key)
    THEN [result |-> Raise(ERR_NO_PRIVATE_KEY), signer_log |-> <<>>]
  ELSE LET signerWallet == get_address(message_to_sign.trader) IN
    IF ~Returned(signerWallet)
      THEN [result |-> signerWallet, signer_log |-> <<>>]
    ELSE IF signerWallet.value # self.public_key
      THEN [result |-> Raise(ERR_MISMATCH), signer_log |-> <<>>]
    ELSE LET signed == _sign_type_data_v4(self, domain, MESSAGE_TYPES,
                                          asdict(message_to_sign), raw) IN
      IF ~Returned(signed.result)
        THEN signed
        ELSE [result |-> OrderData(<<message_to_sign.bidId,
                                     message_to_sign.trader,
                                     message_to_sign.token,
                                     message_to_sign.amount,
                                     signed.result.value.v,
                                     signed.result.value.r,
                                     signed.result.value.s>>),
              signer_log |-> signed.signer_log]

\* Wallet.verify_allowance; raw_allowance is what token.get_allowance
\* returns and decimals what token.decimals holds.  Python's / is true
\* division: a / d > m exactly when a > m * d, for d > 0.
verify_allowance(self, raw_allowance, decimals) ==
  IF decimals = 0
    THEN Raise(ERR_ZERO_DIV)
    ELSE Return(raw_allowance > MIN_ALLOWANCE * decimals)

\* Wallet.settle_trade; response is the relayer's parsed answer.
\* The outcome, the relayer requests and the settlement calls made.
settle_trade(self, auction_id, bid_order, response) ==
  IF self.relayer_url = None
    THEN [result |-> Raise(ERR_URL), relayer_log |-> <<>>, settle_log |-> <<>>]
  ELSE LET request == [auction_id |-> auction_id, bidId |-> bid_order.bidId,
                       api_key |-> self.relayer_token] IN
    IF ~response.attrs
      THEN [result |-> Raise(ERR_RESPONSE_ATTR), relayer_log |-> <<request>>,
            settle_log |-> <<>>]
    ELSE LET seller_order == OrderData(<<response.bidId, response.trader,
                                         response.amount, response.v,
                                         response.r, response.s>>) IN
      IF ~Returned(seller_order)
        THEN [result |-> seller_order, relayer_log |-> <<request>>,
              settle_log |-> <<>>]
        ELSE [result |-> Return(None), relayer_log |-> <<request>>,
              settle_log |-> << [public_key |-> self.public_key,
                                 private_key |-> self.private_key,
                                 buyer |-> bid_order,
                                 seller |-> seller_order.value] >>]

(***************************************************************************)
(* The inputs the operations are called with.                              *)
(***************************************************************************)
PublicKeyArgs == {NoneAddr, EmptyAddr} \cup AddrStrings
PrivateKeyArgs == {None, ""} \cup PrivateKeys
RelayerUrls == {None, "https://relayer"}

Constructions ==
  {__init__(pub, priv, url, "api-key") :
     pub \in PublicKeyArgs, priv \in PrivateKeyArgs, url \in RelayerUrls}

Wallets == {c.value : c \in {d \in Constructions : Returned(d)}}

FullDomain == Domain("OPYN RFQ", "1", "1", "0xsettlement", None)
NameOnlyDomain == Domain("OPYN RFQ", None, None, None, None)
EmptyDomain == Domain(None, None, None, None, None)
\* a plain dict with the keys of a Domain
DictDomain == [FullDomain EXCEPT !.cls = "dict"]

DomainArgs == {FullDomain, NameOnlyDomain, EmptyDomain, DictDomain}

TokenArgs == {[id |-> i, fmt |-> "checksum"] : i \in {1, NumAddrs}}

Messages ==
  {MessageToSign(b, t, tok, 1000 + b, 0) :
     b \in 0..MaxUint, t \in AddrStrings, tok \in TokenArgs}

\* a plain dict with the keys of a MessageToSign
DictMessage ==
  [MessageToSign(0, [id |-> 1, fmt |-> "checksum"],
                 [id |-> 1, fmt |-> "checksum"], 1000, 0) EXCEPT !.cls = "dict"]

MessageArgs == Messages \cup {DictMessage}

HashArgs ==
  {_hash(domain_dict(d), MESSAGE_TYPES, asdict(m)) :
     d \in {FullDomain, EmptyDomain},
     m \in {n \in Messages : n.trader.fmt = "checksum" /\ n.token.id = 1}}

AllowanceArgs ==
  {a \in {k * MIN_ALLOWANCE + e : k \in 0..MaxAllowanceUnits, e \in {-1, 0, 1}} :
     a >= 0}
DecimalsArgs == 0..MaxDecimals

SampleSignature == [v |-> 27, r |-> hex_zero_pad(hex(<<5>>), 32),
                    s |-> hex_zero_pad(hex(<<7>>), 32)]

BidOrders ==
  {OrderData(<<b, [id |-> 1, fmt |-> "checksum"], [id |-> 1, fmt |-> "checksum"],
               1000 + b, SampleSignature.v, SampleSignature.r,
               SampleSignature.s>>).value : b \in 0..MaxUint}

\* the relayer's answers: attrs says whether the parsed body offers its
\* keys as attributes (the dict that requests' json() returns does not)
Responses ==
  {[attrs |-> at, bidId |-> b, trader |-> [id |-> NumAddrs, fmt |-> "checksum"],
    token |-> [id |-> 1, fmt |-> "checksum"], amount |-> 2000 + b,
    v |-> 28, r |-> SampleSignature.s, s |-> SampleSignature.r] :
     at \in BOOLEAN, b \in 0..MaxUint}

(***************************************************************************)
(* The state machine: one wallet and a caller that makes one call at a     *)
(* time on it: call, result and the logs hold the call just made, until    *)
(* the caller takes the result and is ready for the next call.             *)
(***************************************************************************)
Idle == call.op = "none"
Init ==
  /\ wallet \in Wallets
  /\ call = [op |-> "none"]
  /\ result = Return(None)
  /\ signer_log = <<>>
  /\ relayer_log = <<>>
  /\ settle_log = <<>>

\* w = Wallet(...): on failure no object is made and the old one stays
Construct ==
  /\ Idle
  /\ \E pub \in PublicKeyArgs, priv \in PrivateKeyArgs, url \in RelayerUrls :
       LET c == __init__(pub, priv, url, "api-key") IN
         /\ wallet' = IF Returned(c) THEN c.value ELSE wallet
         /\ call' = [op |-> "__init__", public_key |-> pub,
                     private_key |-> priv, relayer_url |-> url]
         /\ result' = IF Returned(c) THEN Return(None) ELSE c
         /\ signer_log' = <<>>
         /\ relayer_log' = <<>>
         /\ settle_log' = <<>>

SignMsg ==
  /\ Idle
  /\ \E h \in HashArgs, raw \in RawSignatures :
       LET out == sign_msg(wallet, h, raw) IN
         /\ call' = [op |-> "sign_msg", messageHash |-> h]
         /\ result' = out.result
         /\ signer_log' = out.signer_log
         /\ relayer_log' = <<>>
         /\ settle_log' = <<>>
         /\ UNCHANGED wallet

SignOrderData ==
  /\ Idle
  /\ \E d \in DomainArgs, m \in MessageArgs, raw \in RawSignatures :
       LET out == sign_order_data(wallet, d, m, raw) IN
         /\ call' = [op |-> "sign_order_data", domain |-> d,
                     message_to_sign |-> m]
         /\ result' = out.result
         /\ signer_log' = out.signer_log
         /\ relayer_log' = <<>>
         /\ settle_log' = <<>>
         /\ UNCHANGED wallet

VerifyAllowance ==
  /\ Idle
  /\ \E a \in AllowanceArgs, dec \in DecimalsArgs :
       /\ call' = [op |-> "verify_allowance", allowance |-> a, decimals |-> dec]
       /\ result' = verify_allowance(wallet, a, dec)
       /\ signer_log' = <<>>
       /\ relayer_log' = <<>>
       /\ settle_log' = <<>>
       /\ UNCHANGED wallet

SettleTrade ==
  /\ Idle
  /\ \E b \in BidOrders, resp \in Responses :
       LET out == settle_trade(wallet, "auction-1", b, resp) IN
         /\ call' = [op |-> "settle_trade", auction_id |-> "auction-1",
                     bid_order |-> b, response |-> resp]
         /\ result' = out.result
         /\ signer_log' = <<>>
         /\ relayer_log' = out.relayer_log
         /\ settle_log' = out.settle_log
         /\ UNCHANGED wallet

\* the caller has taken the outcome of the call and may make the next one
TakeResult ==
  /\ ~Idle
  /\ call' = [op |-> "none"]
  /\ result' = Return(None)
  /\ signer_log' = <<>>
  /\ relayer_log' = <<>>
  /\ settle_log' = <<>>
  /\ UNCHANGED wallet

Next ==
  \/ Construct
  \/ SignMsg
  \/ SignOrderData
  \/ VerifyAllowance
  \/ SettleTrade
  \/ TakeResult

Spec == Init /\ [][Next]_vars

TypeOK == wallet \in Wallets

(***************************************************************************)
(* Properties.                                                             *)
(***************************************************************************)
InSignOrder == call.op = "sign_order_data"
InSignMsg == call.op = "sign_msg"

IsMessage == call.message_to_sign.cls = "MessageToSign"
HasKey == ~Falsy(wallet.private_key)

\* the normalized trader of the message of the call
Trader == get_address(call.message_to_sign.trader)
TraderDiffers == Returned(Trader) /\ Trader.value # wallet.public_key
TraderMatches == Returned(Trader) /\ Trader.value = wallet.public_key

NoSignature == signer_log = <<>> /\ ~Returned(result)

\* C1 (as stated): for every wallet and every MessageToSign whose normalized
\* trader differs from the wallet's address, sign_order_data fails with the
\* signer-mismatch error and produces no signature and no OrderData.
C1_MismatchAlwaysReported ==
  (InSignOrder /\ IsMessage /\ TraderDiffers)
    => (Raised(result, ERR_MISMATCH) /\ NoSignature)

\* C1 (amended): when the normalized trader differs from the wallet's
\* public_key, a wallet that holds a private key fails with the
\* signer-mismatch error and a wallet without one fails with the
\* missing-private-key error; in both cases nothing is signed and no
\* OrderData is returned.
C1_MismatchAborts ==
  (InSignOrder /\ IsMessage /\ TraderDiffers)
    => /\ NoSignature
       /\ HasKey => Raised(result, ERR_MISMATCH)
       /\ ~HasKey => Raised(result, ERR_NO_PRIVATE_KEY)

C1_Witness ==
  /\ InSignOrder /\ IsMessage /\ TraderDiffers /\ HasKey
  /\ call.domain = FullDomain
  /\ Raised(result, ERR_MISMATCH)

\* C2: whenever sign_order_data returns an OrderData, the address of the
\* private key that signed equals the normalized trader of the order,
\* however the wallet was constructed.
C2_SignerIsTrader ==
  (InSignOrder /\ Returned(result))
    => /\ signer_log # <<>>
       /\ \A i \in 1..Len(signer_log) :
            KeyAddrId(signer_log[i].key) = Trader.value.id

\* C3: when the trader of the message and the wallet's address denote the
\* same 20 bytes and differ only in spelling, the comparison matches and
\* sign_order_data does not fail with the signer-mismatch error.
C3_ComparisonIsNormalized ==
  (/\ InSignOrder /\ IsMessage /\ HasKey
   /\ Returned(Trader)
   /\ wallet.public_key \in WellFormedAddrs
   /\ Trader.value.id = wallet.public_key.id)
    => ~Raised(result, ERR_MISMATCH)

AllAbsent(d) == \A i \in 1..Len(DomainFields) : d[DomainFields[i]] = None

InvalidDomain(d) == d.cls # "Domain" \/ AllAbsent(d)

\* C5 (as stated): the checks are made in the order domain, private key,
\* trader: an invalid domain is reported even when the wallet has no private
\* key or the trader differs, and with a valid domain a missing private key
\* is reported even when the trader differs.
C5_DomainCheckedFirst ==
  (InSignOrder /\ IsMessage)
    => /\ InvalidDomain(call.domain) => Raised(result, ERR_DOMAIN)
       /\ (~InvalidDomain(call.domain) /\ ~HasKey)
            => Raised(result, ERR_NO_PRIVATE_KEY)

\* C5 (amended): the checks are made in the order private key, trader,
\* domain: a missing private key is reported whatever the trader and the
\* domain are, a trader that differs is reported whatever the domain is, and
\* a domain that is not a Domain instance is reported only when the wallet
\* has a private key and the trader matches.
C5_DomainCheckedLast ==
  (InSignOrder /\ IsMessage)
    => /\ ~HasKey => Raised(result, ERR_NO_PRIVATE_KEY)
       /\ (HasKey /\ TraderDiffers) => Raised(result, ERR_MISMATCH)
       /\ (HasKey /\ TraderMatches /\ call.domain.cls # "Domain")
            => Raised(result, ERR_DOMAIN)

C5_Witness ==
  /\ InSignOrder /\ IsMessage /\ ~HasKey /\ TraderDiffers
  /\ call.domain = DictDomain
  /\ Raised(result, ERR_NO_PRIVATE_KEY)

HexDigitChars == {HexChars[i] : i \in 1..Len(HexChars)}

\* '0x' followed by exactly 64 hexadecimal digits
IsHex32(h) ==
  /\ Len(h) = 66
  /\ h[1] = "0" /\ h[2] = "x"
  /\ \A i \in 3..66 : h[i] \in HexDigitChars

\* the signature part of what the call returned
ReturnedSignature ==
  [v |-> result.value.v, r |-> result.value.r, s |-> result.value.s]

\* C7: every signature returned by sign_msg, and every OrderData returned by
\* sign_order_data, has v in {27, 28} and r and s of exactly 66 characters,
\* '0x' and 64 hexadecimal digits, whatever the magnitude of r and s.
C7_SignatureFormat ==
  ((InSignMsg \/ InSignOrder) /\ Returned(result))
    => /\ ReturnedSignature.v \in {27, 28}
       /\ IsHex32(ReturnedSignature.r)
       /\ IsHex32(ReturnedSignature.s)

C7_Witness ==
  /\ InSignOrder /\ Returned(result)
  /\ signer_log[1].raw.r = <<5>>
  /\ signer_log[1].raw.v = 1
  /\ result.value.v = 28
  /\ result.value.r = <<"0", "x">> \o Repeat("0", 63) \o <<"5">>
  /\ Len(result.value.s) = 66

\* the digits of a padded hexadecimal text, without the leading zeros
RECURSIVE StripZeros(_)
StripZeros(ds) ==
  IF Len(ds) > 1 /\ ds[1] = "0" THEN StripZeros(Tail(ds)) ELSE ds

Digits(h) == StripZeros(SubSeq(h, 3, Len(h)))

\* the outcome of a sign_order_data call is all or nothing
OrderIsWhole ==
  LET m == call.message_to_sign IN
    IF Returned(result)
      THEN /\ result.value.bidId = m.bidId
           /\ result.value.trader = m.trader
           /\ result.value.token = m.token
           /\ result.value.amount = m.amount
           /\ Len(signer_log) = 1
           /\ signer_log[1].key = wallet.private_key
           /\ signer_log[1].hash =
                <<"0x1901", hash_domain(domain_dict(call.domain)),
                  hash_struct("OpynRfq", MESSAGE_TYPES, asdict(m))>>
           /\ result.value.v = signer_log[1].raw.v + 27
           /\ Digits(result.value.r) = Digits(hex(signer_log[1].raw.r))
           /\ Digits(result.value.s) = Digits(hex(signer_log[1].raw.s))
      ELSE /\ result.kind = "raise"
           /\ signer_log = <<>>

\* C8: a call of sign_order_data either returns an OrderData whose bidId,
\* trader, token and amount are those of the message and whose v, r, s are
\* the signature over the digest of that message, or raises without having
\* signed; in both cases the wallet is left as it was.
C8_AllOrNothing ==
  [][(call'.op = "sign_order_data") => (wallet' = wallet /\ OrderIsWhole')]_vars

C8_Witness ==
  /\ InSignOrder /\ Returned(result)
  /\ call.message_to_sign.trader.fmt = "lower"
  /\ result.value.trader.fmt = "lower"
  /\ result.value.token.id # result.value.trader.id
  /\ Len(signer_log) = 1

RECURSIVE Pow10(_)
Pow10(n) == IF n = 0 THEN 1 ELSE 10 * Pow10(n - 1)

\* a / 10^d > m, for natural numbers
ScaledAbove(a, d, m) ==
  \/ a \div Pow10(d) > m
  \/ (a \div Pow10(d) = m /\ a % Pow10(d) > 0)

\* C9: verify_allowance returns true exactly when rawAllowance / 10^decimals
\* is greater than 100,000,000, and false when it equals it.
C9_AllowanceScaledByPowerOfTen ==
  (call.op = "verify_allowance")
    => /\ Returned(result)
       /\ result.value = ScaledAbove(call.allowance, call.decimals, MIN_ALLOWANCE)

SellerOf(resp) ==
  [bidId |-> resp.bidId, trader |-> resp.trader, token |-> resp.token,
   amount |-> resp.amount, v |-> resp.v, r |-> resp.r, s |-> resp.s]

\* C10: settle_trade calls the settlement contract only after the relayer
\* has answered, and what it hands over is the caller's bid_order as the
\* buyer order and, as the seller order, a complete order whose seven fields
\* are those of the relayer's answer.
C10_SettlesRelayerOrder ==
  (call.op = "settle_trade")
    => /\ settle_log # <<>> => relayer_log # <<>>
       /\ relayer_log # <<>>
            => /\ Len(settle_log) = 1
               /\ settle_log[1].buyer = call.bid_order
               /\ settle_log[1].seller = SellerOf(call.response)

====
